---- MODULE Spec2Model ----
(***************************************************************************)
(* Model of src/sir.py: a one-dimensional epidemic simulation.  A city is  *)
(* a list of string tokens ("S", "R", "V", "I<d>"); a token is modelled as *)
(* the sequence of its characters so that the substring tests, the slice   *)
(* [1:], int() and str() of the source are modelled by what they do.       *)
(* Positions are 0-based as in the source.                                 *)
(***************************************************************************)
EXTENDS Integers, Sequences, FiniteSets, TLC

\* ---------------------------------------------------------------- bounds
MaxN == 3          \* largest population size explored
MaxDC == 2         \* largest ordinary days_contagious explored
LongDC == 11       \* one long contagious period (two-digit day counts)
MaxSeed == 0       \* explicit seeds 0..MaxSeed
Scale == 2         \* floats in [0,1] are k/Scale
RngMod == 8        \* number of states of the random generator
MaxTrials == 2     \* largest num_trials explored
MaxPieces == 2     \* most comma-separated pieces given on the command line

\* ---------------------------------------------------------------- tokens
\* random_seed=None; explicit seeds of the model are non-negative
None == 0 - 1

Digits == <<"0", "1", "2", "3", "4", "5", "6", "7", "8", "9">>

DigitVal(c) == CHOOSE k \in 0..9 : Digits[k + 1] = c

RECURSIVE IntOf(_)
\* int(s) for a string of decimal digits
IntOf(s) ==
  IF Len(s) = 0 THEN 0
  ELSE IntOf(SubSeq(s, 1, Len(s) - 1)) * 10 + DigitVal(s[Len(s)])

RECURSIVE StrOf(_)
\* str(n) for n >= 0
StrOf(n) ==
  IF n < 10 THEN <<Digits[n + 1]>>
  ELSE StrOf(n \div 10) \o <<Digits[(n % 10) + 1]>>

\* 'c' in s
Contains(s, c) == \E k \in 1..Len(s) : s[k] = c

\* s[1:]
Slice1(s) == SubSeq(s, 2, Len(s))

S == <<"S">>
R == <<"R">>
V == <<"V">>
Inf(d) == <<"I">> \o StrOf(d)

\* city[k] with Python's indexing (negative k counts from the end)
At(city, k) == IF k < 0 THEN city[Len(city) + k + 1] ELSE city[k + 1]

\* ------------------------------------------------- has_an_infected_neighbor
\* variant: the general rule applied at every position, so that position 0
\* also consults city[-1], the last person
has_an_infected_neighbor_Wrap(city, position) ==
  IF At(city, position) # S THEN "AssertionError"
  ELSE IF position = Len(city) - 1
    THEN Contains(At(city, position - 1), "I")
  ELSE Contains(At(city, position - 1), "I")
         \/ Contains(At(city, position + 1), "I")

\* variant: infected_neighbor starts as True
has_an_infected_neighbor_DefaultTrue(city, position) ==
  IF At(city, position) # S THEN "AssertionError"
  ELSE IF position = 0 /\ Len(city) > 1 /\ Contains(At(city, 1), "I") THEN TRUE
  ELSE IF position = 0 /\ Len(city) > 1 /\ ~Contains(At(city, 1), "I") THEN FALSE
  ELSE IF position = Len(city) - 1 /\ Contains(At(city, Len(city) - 2), "I") THEN TRUE
  ELSE IF position = Len(city) - 1 /\ ~Contains(At(city, Len(city) - 2), "I") THEN FALSE
  ELSE TRUE

has_an_infected_neighbor(city, position) ==
  IF At(city, position) # S THEN "AssertionError"
  ELSE IF position = 0 /\ Len(city) > 1 /\ Contains(At(city, 1), "I") THEN TRUE
  ELSE IF position = 0 /\ Len(city) > 1 /\ ~Contains(At(city, 1), "I") THEN FALSE
  ELSE IF position = Len(city) - 1 /\ Contains(At(city, Len(city) - 2), "I") THEN TRUE
  ELSE IF position = Len(city) - 1 /\ ~Contains(At(city, Len(city) - 2), "I") THEN FALSE
  ELSE IF position > 0 /\ (Contains(At(city, position - 1), "I")
                           \/ Contains(At(city, position + 1), "I")) THEN TRUE
  ELSE FALSE

\* ----------------------------------------------- advance_person_at_position
\* variant: recovery tested with > instead of >=
advance_LateRecovery(city, position, days_contagious) ==
  LET cur == At(city, position) IN
  IF Contains(cur, "I") /\ IntOf(Slice1(cur)) + 1 > days_contagious THEN R
  ELSE IF Contains(cur, "I") /\ IntOf(Slice1(cur)) + 1 <= days_contagious
    THEN <<"I">> \o StrOf(IntOf(Slice1(cur)) + 1)
  ELSE IF S = cur /\ has_an_infected_neighbor(city, position) = TRUE THEN Inf(0)
  ELSE cur

\* variant: neither branch covers d + 1 = days_contagious
advance_Gap(city, position, days_contagious) ==
  LET cur == At(city, position) IN
  IF Contains(cur, "I") /\ IntOf(Slice1(cur)) + 1 > days_contagious THEN R
  ELSE IF Contains(cur, "I") /\ IntOf(Slice1(cur)) + 1 < days_contagious
    THEN <<"I">> \o StrOf(IntOf(Slice1(cur)) + 1)
  ELSE IF S = cur /\ has_an_infected_neighbor(city, position) = TRUE THEN Inf(0)
  ELSE cur

\* variant: the infection branch tests for "not infected" instead of "S"
advance_Reinfect(city, position, days_contagious) ==
  LET cur == At(city, position) IN
  IF Contains(cur, "I") /\ IntOf(Slice1(cur)) + 1 >= days_contagious THEN R
  ELSE IF Contains(cur, "I") /\ IntOf(Slice1(cur)) + 1 < days_contagious
    THEN <<"I">> \o StrOf(IntOf(Slice1(cur)) + 1)
  ELSE IF (\E q \in {position - 1, position + 1} :
             q >= 0 /\ q < Len(city) /\ Contains(At(city, q), "I"))
    THEN Inf(0)
  ELSE cur

advance_person_at_position(city, position, days_contagious) ==
  LET cur == At(city, position) IN
  IF Contains(cur, "I") /\ IntOf(Slice1(cur)) + 1 >= days_contagious THEN R
  ELSE IF Contains(cur, "I") /\ IntOf(Slice1(cur)) + 1 < days_contagious
    THEN <<"I">> \o StrOf(IntOf(Slice1(cur)) + 1)
  ELSE IF S = cur /\ has_an_infected_neighbor(city, position) = TRUE THEN Inf(0)
  ELSE cur

\* variant: has_an_infected_neighbor is evaluated before the tests
CallsNeighbor_Eager(city, position, days_contagious) == TRUE

\* lines 80-84: advance_person_at_position reaches the third test and its
\* left operand 'S' == city[position] holds, so has_an_infected_neighbor is
\* called
CallsNeighbor(city, position, days_contagious) ==
  LET cur == At(city, position) IN
  /\ ~(Contains(cur, "I") /\ IntOf(Slice1(cur)) + 1 >= days_contagious)
  /\ ~(Contains(cur, "I") /\ IntOf(Slice1(cur)) + 1 < days_contagious)
  /\ S = cur

\* the number of calls of has_an_infected_neighbor in one simulate_one_day
NeighborCallCount(starting_city, days_contagious) ==
  Cardinality({i \in 0..(Len(starting_city) - 1) :
                 CallsNeighbor(starting_city, i, days_contagious)})

\* -------------------------------------------------------- simulate_one_day
RECURSIVE DayLoop(_, _, _, _)
\* the for loop of simulate_one_day: new_city holds the first i results
DayLoop(starting_city, new_city, i, days_contagious) ==
  IF i = Len(starting_city) THEN new_city
  ELSE DayLoop(starting_city,
               Append(new_city,
                      advance_person_at_position(starting_city, i, days_contagious)),
               i + 1, days_contagious)

RECURSIVE InPlaceLoop(_, _, _)
\* variant: the city is updated in place, position by position
InPlaceLoop(c, i, days_contagious) ==
  IF i = Len(c) THEN c
  ELSE InPlaceLoop([c EXCEPT ![i + 1] =
                      advance_person_at_position(c, i, days_contagious)],
                   i + 1, days_contagious)

simulate_one_day_InPlace(starting_city, days_contagious) ==
  InPlaceLoop(starting_city, 0, days_contagious)

simulate_one_day(starting_city, days_contagious) ==
  DayLoop(starting_city, <<>>, 0, days_contagious)

\* ----------------------------------------------------------- count 'I'
RECURSIVE Join(_)
\* ''.join(city)
Join(city) == IF Len(city) = 0 THEN <<>> ELSE Head(city) \o Join(Tail(city))

\* 'I' in ''.join(city)
AnyInfected(city) == Contains(Join(city), "I")

\* ------------------------------------------------------------- random
\* random.seed(seed) with an integer seed: the generator state is a
\* function of the seed alone
SeedState(seed) == seed % RngMod

\* random.random(): advances the generator and returns value/Scale in [0,1)
Random(rng) ==
  LET next == (5 * rng + 1) % RngMod
  IN [state |-> next, value |-> (next * Scale) \div RngMod]

\* ----------------------------------------------------------- vaccinate_city
\* new_city = starting_city[:]  (a copy: the caller's list is left alone)
\* variant: new_city = starting_city, the same list object
CopyOf_Alias(starting_city) == [new_city |-> starting_city, shared |-> TRUE]

\* shared = FALSE: new_city is a distinct list object
CopyOf(starting_city) == [new_city |-> starting_city, shared |-> FALSE]

\* variant: the draw is compared with <=
DrawHits_Inclusive(value, vaccine_effectiveness) == value <= vaccine_effectiveness

\* random.random() < vaccine_effectiveness
DrawHits(value, vaccine_effectiveness) == value < vaccine_effectiveness

RECURSIVE VaccLoop(_, _, _, _)
\* the for loop of vaccinate_city over enumerate(new_city), from index x
VaccLoop(new_city, x, vaccine_effectiveness, rng) ==
  IF x = Len(new_city) THEN [new_city |-> new_city, rng |-> rng]
  ELSE IF At(new_city, x) = S
    THEN LET draw == Random(rng) IN
         IF DrawHits(draw.value, vaccine_effectiveness)
           THEN VaccLoop([new_city EXCEPT ![x + 1] = V], x + 1,
                         vaccine_effectiveness, draw.state)
           ELSE VaccLoop(new_city, x + 1, vaccine_effectiveness, draw.state)
  ELSE VaccLoop(new_city, x + 1, vaccine_effectiveness, rng)

\* variant: no draws are made when the effectiveness is 0
vaccinate_city_SkipZero(starting_city, vaccine_effectiveness, rng) ==
  IF vaccine_effectiveness = 0
    THEN [new_city |-> starting_city, rng |-> rng, arg |-> starting_city]
    ELSE LET r == VaccLoop(starting_city, 0, vaccine_effectiveness, rng)
         IN [new_city |-> r.new_city, rng |-> r.rng, arg |-> starting_city]

\* result: the returned list, the generator state afterwards, and the
\* content of the caller's list afterwards
vaccinate_city(starting_city, vaccine_effectiveness, rng) ==
  LET c == CopyOf(starting_city)
      r == VaccLoop(c.new_city, 0, vaccine_effectiveness, rng)
  IN [new_city |-> r.new_city, rng |-> r.rng,
      arg |-> IF c.shared THEN r.new_city ELSE starting_city]

\* ------------------------------------------------------------------ state
VARIABLES
  city,                  \* content of the caller's list (starting_city)
  days_contagious,
  vaccine_effectiveness, \* in units of 1/Scale
  entry,                 \* "run_simulation" or "calc_avg_days_to_zero_infections"
  num_trials,
  start_seed,            \* the random_seed argument given to the entry function
  pc,                    \* position in the code
  run_seed,              \* run_simulation's random_seed parameter
  rng,                   \* state of the module-level random generator
  ending_city,
  duration,
  idx,                   \* iterations of run_simulation's for loop done
  avg_seed,              \* calc_avg's random_seed local
  trial,                 \* calc_avg's loop counter i
  duration_list,
  avg_days,              \* <<sum, len>>: the quotient sum/len
  calls,                 \* log of the run_simulation calls: list given, seed
                         \* given, days returned (None until the loop is left)
  run_no,                \* which of the repeated runs is executing
  first,                 \* result of the first of the repeated runs
  day0,                  \* log: the snapshot the vaccination pass returned
  neighbor_calls         \* log: calls of has_an_infected_neighbor in this run

vars == <<city, days_contagious, vaccine_effectiveness, entry, num_trials,
          start_seed, pc, run_seed, rng, ending_city, duration, idx,
          avg_seed, trial, duration_list, avg_days, calls, run_no, first,
          day0, neighbor_calls>>

inputVars == <<days_contagious, vaccine_effectiveness, entry, num_trials,
               start_seed>>
runVars == <<run_seed, ending_city, duration, idx>>
avgVars == <<avg_seed, trial, duration_list, avg_days>>
twiceVars == <<run_no, first>>
logVars == <<day0, neighbor_calls>>

\* ----------------------------------------------------------------- inputs
\* day counts of the people infected at the start
InitDays == {0, LongDC - 2}
\* "V" arises from the vaccination pass
Tokens == {S, R} \cup {Inf(d) : d \in InitDays}
Cities == UNION {[1..n -> Tokens] : n \in 1..MaxN}
\* -1 stands for the unvalidated non-positive values
DaysContagious == {0 - 1} \cup (1..MaxDC) \cup {LongDC}
Seeds == (0..MaxSeed) \cup {None}
Effectiveness == 0..Scale
RngStates == 0..(RngMod - 1)

NoCity == <<>>

InitCommon ==
  /\ city \in Cities
  /\ days_contagious \in DaysContagious
  /\ vaccine_effectiveness \in Effectiveness
  /\ start_seed \in Seeds
  /\ rng = 0
  /\ ending_city = NoCity
  /\ duration = 0
  /\ idx = 0
  /\ trial = 0
  /\ duration_list = <<>>
  /\ avg_days = <<0, 0>>
  /\ calls = <<>>
  /\ run_no = 0
  /\ first = <<>>
  /\ day0 = NoCity
  /\ neighbor_calls = 0

Init ==
  /\ InitCommon
  /\ \/ /\ entry = "run_simulation"
        /\ num_trials = 1
        /\ pc = "run_seed"
        /\ run_seed = start_seed
        /\ avg_seed = None
     \/ /\ entry = "calc_avg_days_to_zero_infections"
        /\ num_trials \in (0 - 1)..MaxTrials
        /\ pc = "avg_start"
        /\ run_seed = None
        /\ avg_seed = start_seed

\* ---------------------------------------------------------- run_simulation
\* variant: the generator is not seeded
RunSeed_NoReseed ==
  /\ pc = "run_seed"
  /\ duration' = 0
  /\ rng' = rng
  /\ calls' = Append(calls, [city |-> city, seed |-> run_seed, days |-> None])
  /\ pc' = "run_vacc"
  /\ UNCHANGED <<city, inputVars, run_seed, ending_city, idx, avgVars,
                 twiceVars, logVars>>

\* lines 131-132: duration = 0; random.seed(random_seed)
RunSeed ==
  /\ pc = "run_seed"
  /\ duration' = 0
  /\ IF run_seed = None
       THEN rng' \in RngStates
       ELSE rng' = SeedState(run_seed)
  /\ calls' = Append(calls, [city |-> city, seed |-> run_seed, days |-> None])
  /\ pc' = "run_vacc"
  /\ UNCHANGED <<city, inputVars, run_seed, ending_city, idx, avgVars,
                 twiceVars, logVars>>

\* line 133: ending_city = vaccinate_city(starting_city, vaccine_effectiveness)
RunVaccinate ==
  /\ pc = "run_vacc"
  /\ LET v == vaccinate_city(city, vaccine_effectiveness, rng) IN
       /\ ending_city' = v.new_city
       /\ rng' = v.rng
       /\ city' = v.arg
       /\ day0' = v.new_city
  /\ idx' = 0
  /\ neighbor_calls' = 0
  /\ pc' = "run_loop"
  /\ UNCHANGED <<inputVars, run_seed, duration, avgVars, calls, twiceVars>>

\* variant: range(len(starting_city))
LoopBound_NoDays(starting_city, dc) == Len(starting_city)

\* range(len(starting_city) + days_contagious)
LoopBound(starting_city, dc) == Len(starting_city) + dc

\* lines 134-136: an iteration that finds nobody infected breaks
RunBreak ==
  /\ pc = "run_loop"
  /\ idx < LoopBound(city, days_contagious)
  /\ ~AnyInfected(ending_city)
  /\ pc' = "run_ret"
  /\ calls' = [calls EXCEPT ![Len(calls)].days = duration]
  /\ UNCHANGED <<city, inputVars, runVars, rng, avgVars, twiceVars, logVars>>

\* variant: a loop that does not advance its counter
RunDay_NoCounter ==
  /\ pc = "run_loop"
  /\ AnyInfected(ending_city)
  /\ ending_city' = simulate_one_day(ending_city, days_contagious)
  /\ duration' = duration + 1
  /\ neighbor_calls' = neighbor_calls
                       + NeighborCallCount(ending_city, days_contagious)
  /\ UNCHANGED <<city, inputVars, pc, run_seed, idx, rng, avgVars, calls,
                 twiceVars, day0>>

\* variant: the vaccination pass is repeated every day
RunDay_Revaccinate ==
  /\ pc = "run_loop"
  /\ idx < LoopBound(city, days_contagious)
  /\ AnyInfected(ending_city)
  /\ LET v == vaccinate_city(ending_city, vaccine_effectiveness, rng) IN
       /\ ending_city' = simulate_one_day(v.new_city, days_contagious)
       /\ rng' = v.rng
  /\ duration' = duration + 1
  /\ neighbor_calls' = neighbor_calls
                       + NeighborCallCount(ending_city, days_contagious)
  /\ idx' = idx + 1
  /\ UNCHANGED <<city, inputVars, pc, run_seed, avgVars, calls, twiceVars,
                 day0>>

\* variant: the day is simulated before the test for infected people
RunDay_ExtraDay ==
  /\ pc = "run_loop"
  /\ idx < LoopBound(city, days_contagious)
  /\ ending_city' = simulate_one_day(ending_city, days_contagious)
  /\ duration' = duration + 1
  /\ neighbor_calls' = neighbor_calls
                       + NeighborCallCount(ending_city, days_contagious)
  /\ idx' = idx + 1
  /\ UNCHANGED <<city, inputVars, pc, run_seed, rng, avgVars, calls, twiceVars,
                 day0>>

\* lines 134-139: an iteration that simulates one day
RunDay ==
  /\ pc = "run_loop"
  /\ idx < LoopBound(city, days_contagious)
  /\ AnyInfected(ending_city)
  /\ ending_city' = simulate_one_day(ending_city, days_contagious)
  /\ duration' = duration + 1
  /\ neighbor_calls' = neighbor_calls
                       + NeighborCallCount(ending_city, days_contagious)
  /\ idx' = idx + 1
  /\ UNCHANGED <<city, inputVars, pc, run_seed, rng, avgVars, calls,
                 twiceVars, day0>>

\* line 134: the range is exhausted
RunExhausted ==
  /\ pc = "run_loop"
  /\ idx >= LoopBound(city, days_contagious)
  /\ pc' = "run_ret"
  /\ calls' = [calls EXCEPT ![Len(calls)].days = duration]
  /\ UNCHANGED <<city, inputVars, runVars, rng, avgVars, twiceVars, logVars>>

\* line 142 for a direct call: (ending_city, duration) is the result
RunReturn ==
  /\ pc = "run_ret"
  /\ entry = "run_simulation"
  /\ pc' = "done"
  /\ UNCHANGED <<city, inputVars, runVars, rng, avgVars, calls, twiceVars,
                 logVars>>

\* ---------------------------------------- calc_avg_days_to_zero_infections
\* variant: no assertion on num_trials
AvgStart_NoAssert ==
  /\ pc = "avg_start"
  /\ duration_list' = <<>>
  /\ avg_days' = <<0, 1>>
  /\ trial' = 0
  /\ pc' = "avg_loop"
  /\ UNCHANGED <<city, inputVars, runVars, rng, avg_seed, calls, twiceVars,
                 logVars>>

\* lines 192-195
AvgStart ==
  /\ pc = "avg_start"
  /\ IF num_trials > 0
       THEN /\ duration_list' = <<>>
            /\ avg_days' = <<0, 1>>
            /\ trial' = 0
            /\ pc' = "avg_loop"
       ELSE /\ pc' = "AssertionError"
            /\ UNCHANGED <<duration_list, avg_days, trial>>
  /\ UNCHANGED <<city, inputVars, runVars, rng, avg_seed, calls, twiceVars,
                 logVars>>

\* lines 196-197: the next trial calls run_simulation
AvgCall ==
  /\ pc = "avg_loop"
  /\ trial < num_trials
  /\ run_seed' = avg_seed
  /\ pc' = "run_seed"
  /\ UNCHANGED <<city, inputVars, ending_city, duration, idx, rng, avgVars,
                 calls, twiceVars, logVars>>

\* variant: the seed is not incremented between trials
AvgAppend_SameSeed ==
  /\ pc = "run_ret"
  /\ entry = "calc_avg_days_to_zero_infections"
  /\ duration_list' = Append(duration_list, duration)
  /\ trial' = trial + 1
  /\ pc' = "avg_loop"
  /\ UNCHANGED <<city, inputVars, runVars, rng, avg_seed, avg_days, calls,
                 twiceVars, logVars>>

\* lines 197-198: the trial's duration is appended, the seed incremented
AvgAppend ==
  /\ pc = "run_ret"
  /\ entry = "calc_avg_days_to_zero_infections"
  /\ duration_list' = Append(duration_list, duration)
  /\ IF avg_seed = None
       THEN /\ pc' = "TypeError"
            /\ UNCHANGED <<avg_seed, trial>>
       ELSE /\ avg_seed' = avg_seed + 1
            /\ trial' = trial + 1
            /\ pc' = "avg_loop"
  /\ UNCHANGED <<city, inputVars, runVars, rng, avg_days, calls, twiceVars,
                 logVars>>

RECURSIVE Sum(_)
\* sum(duration_list)
Sum(l) == IF Len(l) = 0 THEN 0 ELSE Head(l) + Sum(Tail(l))

\* lines 200-202: avg_days = sum(duration_list)/len(duration_list)
AvgReturn ==
  /\ pc = "avg_loop"
  /\ trial >= num_trials
  /\ avg_days' = <<Sum(duration_list), Len(duration_list)>>
  /\ pc' = "done"
  /\ UNCHANGED <<city, inputVars, runVars, rng, avg_seed, trial, duration_list,
                 calls, twiceVars, logVars>>

Next ==
  \/ RunSeed
  \/ RunVaccinate
  \/ RunBreak
  \/ RunDay
  \/ RunExhausted
  \/ RunReturn
  \/ AvgStart
  \/ AvgCall
  \/ AvgAppend
  \/ AvgReturn

Spec == Init /\ [][Next]_vars

\* ------------------------------------------------------ direct runs only
\* run_simulation called directly; the program is sequential, so a step
\* that can be taken is taken
InitRun == Init /\ entry = "run_simulation"

NextRun ==
  \/ RunSeed
  \/ RunVaccinate
  \/ RunBreak
  \/ RunDay
  \/ RunExhausted
  \/ RunReturn

SpecRun == InitRun /\ [][NextRun]_vars /\ WF_vars(NextRun)

\* ------------------------------------------------------- repeated runs
\* A caller that invokes run_simulation three times on the same list: with
\* the given inputs, then with any other seed, then with the given inputs
\* again.
InitTwice ==
  /\ InitCommon
  /\ entry = "run_simulation"
  /\ num_trials = 1
  /\ start_seed # None
  /\ pc = "run_seed"
  /\ run_seed = start_seed
  /\ avg_seed = None

\* the first call returns (line 142); the caller keeps the result
TwiceFirst ==
  /\ pc = "run_ret"
  /\ run_no = 0
  /\ first' = [final |-> ending_city, days |-> duration]
  /\ run_no' = 1
  /\ run_seed' \in Seeds
  /\ pc' = "run_seed"
  /\ UNCHANGED <<city, inputVars, ending_city, duration, idx, rng, avgVars,
                 calls, logVars>>

\* the call in between returns; the caller repeats the first call
TwiceSecond ==
  /\ pc = "run_ret"
  /\ run_no = 1
  /\ run_no' = 2
  /\ run_seed' = start_seed
  /\ pc' = "run_seed"
  /\ UNCHANGED <<city, inputVars, ending_city, duration, idx, rng, avgVars,
                 calls, first, logVars>>

\* the repeated call returns
TwiceThird ==
  /\ pc = "run_ret"
  /\ run_no = 2
  /\ pc' = "done"
  /\ UNCHANGED <<city, inputVars, runVars, rng, avgVars, calls, twiceVars,
                 logVars>>

NextTwice ==
  \/ RunSeed
  \/ RunVaccinate
  \/ RunBreak
  \/ RunDay
  \/ RunExhausted
  \/ TwiceFirst
  \/ TwiceSecond
  \/ TwiceThird

SpecTwice == InitTwice /\ [][NextTwice]_vars

\* --------------------------------------------------------------------- cmd
\* pieces of the command-line city string between commas
RawPieces ==
  { <<"S">>, <<" ", "S">>, <<"R">>, <<"V">>, <<"I", "0">>, <<"I", "1", "2">>,
    <<"I", "1", "x">>, <<"I", "x">>, <<"I">>, <<>>, <<"X">> }

RawCities == UNION {[1..n -> RawPieces] : n \in 1..MaxPieces}

RECURSIVE Strip(_)
\* p.strip(), for blanks
Strip(p) ==
  IF Len(p) = 0 THEN p
  ELSE IF p[1] = " " THEN Strip(Tail(p))
  ELSE IF p[Len(p)] = " " THEN Strip(SubSeq(p, 1, Len(p) - 1))
  ELSE p

\* lines 233-241 for one person p: "ok", "rejected" (emsg printed,
\* return -1) or "IndexError" (p[0] or p[1] does not exist)
TokenCheck(p) ==
  IF Len(p) = 0 THEN "IndexError"
  ELSE IF p[1] = "I"
    THEN IF Len(p) < 2 THEN "IndexError"
         ELSE IF \E k \in 0..9 : Digits[k + 1] = p[2] THEN "ok"
         ELSE "rejected"
  ELSE IF p \notin {S, R} THEN "rejected"
  ELSE "ok"

RECURSIVE ValidateLoop(_, _)
\* the for loop of lines 232-241 from index i: the first person that is not
\* "ok" ends it
ValidateLoop(c, i) ==
  IF i = Len(c) THEN "ok"
  ELSE IF TokenCheck(At(c, i)) # "ok" THEN TokenCheck(At(c, i))
  ELSE ValidateLoop(c, i + 1)

\* cmd is entered with the click defaults for the options
InitCmd ==
  /\ city \in RawCities
  /\ days_contagious = 2
  /\ vaccine_effectiveness = 0
  /\ start_seed = None
  /\ num_trials = 1
  /\ entry \in {"run_simulation", "calc_avg_days_to_zero_infections"}
  /\ pc = "cmd_validate"
  /\ run_seed = None
  /\ avg_seed = None
  /\ rng = 0
  /\ ending_city = NoCity
  /\ duration = 0
  /\ idx = 0
  /\ trial = 0
  /\ duration_list = <<>>
  /\ avg_days = <<0, 0>>
  /\ calls = <<>>
  /\ run_no = 0
  /\ first = <<>>
  /\ day0 = NoCity
  /\ neighbor_calls = 0

\* lines 229-241: the pieces are stripped and checked
CmdValidate ==
  /\ pc = "cmd_validate"
  /\ LET stripped == [k \in 1..Len(city) |-> Strip(city[k])] IN
       /\ city' = stripped
       /\ pc' = CASE ValidateLoop(stripped, 0) = "ok" -> "cmd_dispatch"
                  [] ValidateLoop(stripped, 0) = "rejected" -> "cmd_rejected"
                  [] OTHER -> "IndexError"
  /\ UNCHANGED <<inputVars, runVars, rng, avgVars, calls, twiceVars, logVars>>

\* lines 243-253: the city is handed to run_simulation or to calc_avg
CmdDispatch ==
  /\ pc = "cmd_dispatch"
  /\ IF entry = "run_simulation"
       THEN /\ pc' = "run_seed"
            /\ run_seed' = start_seed
            /\ UNCHANGED avg_seed
       ELSE /\ pc' = "avg_start"
            /\ avg_seed' = start_seed
            /\ UNCHANGED run_seed
  /\ UNCHANGED <<city, inputVars, ending_city, duration, idx, rng, trial,
                 duration_list, avg_days, calls, twiceVars, logVars>>

NextCmd ==
  \/ CmdValidate
  \/ CmdDispatch

SpecCmd == InitCmd /\ [][NextCmd]_vars

\* ------------------------------------------------------------ vocabulary
\* day counts that can occur
DayRange == 0..LongDC

IsInfected(tok) == \E d \in DayRange : tok = Inf(d)

Positions(c) == 0..(Len(c) - 1)

\* a run is between vaccination and its return
InRun == pc \in {"run_loop", "run_ret"}

\* this step is one iteration of run_simulation's loop that simulates a day
DayStep == pc = "run_loop" /\ idx' = idx + 1

\* ------------------------------------------------------------------ claims

\* C1: with days_contagious >= 1, a run that has started returns; its loop
\* either leaves or advances its counter in every step, the counter never
\* exceeds N + days_contagious, and the number of days simulated equals the
\* counter, so that at most N + days_contagious days are simulated and
\* 0 <= days_elapsed <= N + days_contagious.
C1_RunBounded ==
  /\ [](days_contagious >= 1 /\ InRun =>
          /\ duration = idx
          /\ 0 <= duration
          /\ duration <= Len(city) + days_contagious)
  /\ [][days_contagious >= 1 /\ pc = "run_loop" =>
          \/ pc' = "run_ret"
          \/ pc' = "run_loop" /\ idx' = idx + 1 /\ duration' = duration + 1]_vars
  /\ (pc = "run_seed" /\ days_contagious >= 1) ~> (pc = "run_ret")

\* a run that needed N + days_contagious - 1 days has returned
C1_Witness ==
  /\ pc = "run_ret"
  /\ days_contagious >= 1
  /\ Len(city) >= 2
  /\ duration = Len(city) + days_contagious - 1

\* C2: a simulated day yields a snapshot of the same length whose element at
\* every position is advance_person_at_position applied to the snapshot as
\* it was at the start of the day.
C2_DaySynchronous ==
  [][DayStep =>
       /\ Len(ending_city') = Len(ending_city)
       /\ \A i \in Positions(ending_city) :
            At(ending_city', i) =
              advance_person_at_position(ending_city, i, days_contagious)]_vars

\* after a simulated day a person infected that day stands left of a person
\* still susceptible
C2_Witness ==
  /\ pc = "run_loop"
  /\ duration >= 1
  /\ \E i \in Positions(ending_city) :
       /\ i + 1 \in Positions(ending_city)
       /\ At(ending_city, i) = Inf(0)
       /\ At(ending_city, i + 1) = S

\* some existing neighbour of position p is infected
NeighborInfected(c, p) ==
  \E q \in {p - 1, p + 1} \cap Positions(c) : IsInfected(At(c, q))

\* C3: with days_contagious >= 1, the next state of a person is Recovered
\* for Infected(d) with d + 1 >= days_contagious, Infected(d + 1) for
\* Infected(d) with d + 1 < days_contagious, Infected(0) for a Susceptible
\* with an infected neighbour, and the current state otherwise.
C3_Transition ==
  (days_contagious >= 1 /\ InRun) =>
    \A p \in Positions(ending_city) :
      LET cur == At(ending_city, p)
          nxt == advance_person_at_position(ending_city, p, days_contagious)
      IN /\ \A d \in DayRange : cur = Inf(d) =>
              nxt = IF d + 1 >= days_contagious THEN R ELSE Inf(d + 1)
         /\ cur = S =>
              nxt = IF NeighborInfected(ending_city, p) THEN Inf(0) ELSE S
         /\ cur \in {R, V} => nxt = cur
         /\ cur = S \/ cur \in {R, V} \/ IsInfected(cur)

\* a day has been simulated and the snapshot holds a susceptible person
\* beside an infected one, a person about to recover and one not yet
C3_Witness ==
  /\ pc = "run_loop"
  /\ duration >= 1
  /\ \E p \in Positions(ending_city) :
       At(ending_city, p) = S /\ NeighborInfected(ending_city, p)
  /\ \E p \in Positions(ending_city), d \in DayRange :
       At(ending_city, p) = Inf(d) /\ d + 1 < days_contagious
  /\ \E p \in Positions(ending_city), d \in DayRange :
       At(ending_city, p) = Inf(d) /\ d + 1 >= days_contagious

\* C4: for a susceptible position p, has_an_infected_neighbor is true iff an
\* existing position among p-1 and p+1 is infected (false for a population
\* of one).
C4_NeighborRule ==
  InRun =>
    \A p \in Positions(ending_city) :
      At(ending_city, p) = S =>
        /\ has_an_infected_neighbor(ending_city, p)
             = NeighborInfected(ending_city, p)
        /\ Len(ending_city) = 1 =>
             has_an_infected_neighbor(ending_city, p) = FALSE

\* the first person is susceptible, the last one infected and they are not
\* neighbours
C4_Witness ==
  /\ pc = "run_loop"
  /\ Len(ending_city) >= 3
  /\ At(ending_city, 0) = S
  /\ ~IsInfected(At(ending_city, 1))
  /\ IsInfected(At(ending_city, Len(ending_city) - 1))

SIS == <<S, Inf(0), S>>

\* C5 as stated: from ["S","I0","S"] with days_contagious = 2 and no
\* vaccination the snapshot is ["I0","I1","I0"] after day 1 and
\* ["R","R","R"] after day 2, and the run returns 2 days.
C5_Original ==
  (city = SIS /\ days_contagious = 2 /\ vaccine_effectiveness = 0 /\ InRun) =>
    /\ duration = 1 => ending_city = <<Inf(0), Inf(1), Inf(0)>>
    /\ duration = 2 => ending_city = <<R, R, R>>
    /\ pc = "run_ret" => duration = 2

\* C5: from ["S","I0","S"] with days_contagious = 2 and no vaccination the
\* snapshot is ["I0","I1","I0"] after day 1, ["I1","R","I1"] after day 2 and
\* ["R","R","R"] after day 3, and the run returns 3 days.
C5_Scenario ==
  (city = SIS /\ days_contagious = 2 /\ vaccine_effectiveness = 0 /\ InRun) =>
    /\ duration = 0 => ending_city = SIS
    /\ duration = 1 => ending_city = <<Inf(0), Inf(1), Inf(0)>>
    /\ duration = 2 => ending_city = <<Inf(1), R, Inf(1)>>
    /\ duration = 3 => ending_city = <<R, R, R>>
    /\ duration <= 3
    /\ pc = "run_ret" => duration = 3

C5_Witness ==
  /\ city = SIS /\ days_contagious = 2 /\ vaccine_effectiveness = 0
  /\ pc = "run_ret"
  /\ ending_city = <<R, R, R>>

\* C6: within a run, a position that holds Recovered or Vaccinated holds the
\* same state in the next snapshot.
C6_Terminal ==
  [][InRun =>
       /\ Len(ending_city') = Len(ending_city)
       /\ \A p \in Positions(ending_city) :
            At(ending_city, p) \in {R, V} =>
              At(ending_city', p) = At(ending_city, p)]_vars

\* after a simulated day an immune person stands next to an infected one
C6_Witness ==
  /\ pc = "run_loop"
  /\ duration >= 1
  /\ \E p \in Positions(ending_city) :
       /\ At(ending_city, p) \in {R, V}
       /\ NeighborInfected(ending_city, p)

\* C7: with days_contagious >= 1, a simulated day takes Infected(d) to
\* Infected(d + 1) or to Recovered, and Recovered to Recovered.
C7_DayCount ==
  [][(DayStep /\ days_contagious >= 1) =>
       \A p \in Positions(ending_city) :
         /\ \A d \in DayRange :
              At(ending_city, p) = Inf(d) =>
                At(ending_city', p) \in {Inf(d + 1), R}
         /\ At(ending_city, p) = R => At(ending_city', p) = R]_vars

\* a person infected during the run has reached day count 2
C7_Witness ==
  /\ pc = "run_loop"
  /\ \E p \in Positions(ending_city) :
       At(city, p) = S /\ At(ending_city, p) = Inf(2)

\* C8: a run repeated with the same list, days_contagious, effectiveness and
\* explicit seed returns the same final snapshot and the same number of
\* days as the first one, whatever seed the run in between used.
C8_Deterministic ==
  (run_no = 2 /\ pc = "done") =>
    /\ ending_city = first.final
    /\ duration = first.days

\* the repeated run has returned after vaccinating some but not all of the
\* susceptible, and the run in between used another seed
C8_Witness ==
  /\ run_no = 2
  /\ pc = "done"
  /\ calls[2].seed # start_seed
  /\ \E p, q \in Positions(city) :
       /\ At(city, p) = S /\ At(ending_city, p) = V
       /\ At(city, q) = S /\ At(ending_city, q) # V

RECURSIVE RngAfter(_, _)
\* the generator state after k draws
RngAfter(g, k) == IF k = 0 THEN g ELSE RngAfter(Random(g).state, k - 1)

\* number of susceptible positions among 0..p
SCount(c, p) == Cardinality({q \in 0..p : At(c, q) = S})

\* this step is the vaccination pass of a run
VaccStep == pc = "run_vacc" /\ pc' = "run_loop"

\* C9: the vaccination pass takes one draw per susceptible position, in
\* position order, and none otherwise; a susceptible position becomes
\* Vaccinated iff its draw is below the effectiveness and every other
\* position is unchanged; effectiveness 0 returns the input and
\* effectiveness 1 vaccinates every susceptible position.
C9_Vaccinate ==
  [][VaccStep =>
       /\ Len(ending_city') = Len(city)
       /\ \A p \in Positions(city) :
            IF At(city, p) = S
              THEN At(ending_city', p) =
                     IF Random(RngAfter(rng, SCount(city, p) - 1)).value
                          < vaccine_effectiveness
                       THEN V ELSE S
              ELSE At(ending_city', p) = At(city, p)
       /\ rng' = RngAfter(rng, SCount(city, Len(city) - 1))
       /\ vaccine_effectiveness = 0 => ending_city' = city
       /\ vaccine_effectiveness = Scale =>
            \A p \in Positions(city) :
              At(city, p) = S => At(ending_city', p) = V]_vars

\* a pass with effectiveness 0 over two susceptible persons has run and the
\* generator has moved
C9_Witness ==
  /\ pc = "run_loop"
  /\ idx = 0
  /\ vaccine_effectiveness = 0
  /\ SCount(city, Len(city) - 1) >= 2
  /\ ending_city = city
  /\ run_seed # None
  /\ rng = RngAfter(SeedState(run_seed), SCount(city, Len(city) - 1))
  /\ rng # SeedState(run_seed)

RECURSIVE SumDays(_)
\* sum of the days returned by the logged calls
SumDays(log) == IF Len(log) = 0 THEN 0 ELSE Head(log).days + SumDays(Tail(log))

\* C10: with num_trials > 0 and an integer start seed, calc_avg has called
\* run_simulation exactly num_trials times when it returns, each time with
\* the same list content, with seeds start_seed, start_seed + 1, ... in that
\* order, and returns the sum of the days returned divided by num_trials.
C10_Average ==
  (entry = "calc_avg_days_to_zero_infections" /\ start_seed # None
     /\ num_trials > 0) =>
    /\ Len(calls) <= num_trials
    /\ \A k \in 1..Len(calls) :
         /\ calls[k].seed = start_seed + k - 1
         /\ calls[k].city = calls[1].city
    /\ pc = "done" =>
         /\ Len(calls) = num_trials
         /\ avg_days = <<SumDays(calls), num_trials>>

\* an average over two trials of different length has been returned
C10_Witness ==
  /\ entry = "calc_avg_days_to_zero_infections"
  /\ pc = "done"
  /\ num_trials = 2
  /\ start_seed # None
  /\ calls[1].days # calls[2].days

\* nobody in c is infected
InfectionFree(c) == \A p \in Positions(c) : ~IsInfected(At(c, p))

\* C11: simulate_one_day returns a snapshot equal to its input whenever the
\* input holds no infected person, for every days_contagious.
C11_FixedPoint ==
  (InRun /\ InfectionFree(ending_city)) =>
    simulate_one_day(ending_city, days_contagious) = ending_city

\* an infection-free snapshot of three or more with a susceptible person in
\* the middle, an immune one and a vaccinated one
C11_Witness ==
  /\ pc = "run_ret"
  /\ InfectionFree(ending_city)
  /\ Len(ending_city) >= 3
  /\ At(ending_city, 1) = S
  /\ \E p, q \in Positions(ending_city) :
       At(ending_city, p) = V /\ At(ending_city, q) = R

\* C13: when nobody is infected in the initial snapshot and the
\* effectiveness is 0, a run simulates no day and returns a snapshot equal
\* to the initial one with 0 days.
C13_NoInfection ==
  (InRun /\ InfectionFree(city) /\ vaccine_effectiveness = 0) =>
    /\ ending_city = city
    /\ duration = 0
    /\ idx = 0

\* such a run, over susceptible people, has returned
C13_Witness ==
  /\ pc = "run_ret"
  /\ InfectionFree(city)
  /\ vaccine_effectiveness = 0
  /\ Len(city) >= 2
  /\ \E p \in Positions(city) : At(city, p) = S
  /\ calls[Len(calls)].days = 0

\* C15: no step changes the content of the caller's list, and every call of
\* run_simulation is given the content the list had at the first call.
C15_NoMutation ==
  /\ [][city' = city]_vars
  /\ [](\A k \in 1..Len(calls) : calls[k].city = city /\ calls[k].city = calls[1].city)

\* the second trial of an average has started after a first trial that
\* vaccinated somebody
C15_Witness ==
  /\ entry = "calc_avg_days_to_zero_infections"
  /\ Len(calls) = 2
  /\ pc = "run_vacc"
  /\ \E p \in Positions(city) : At(city, p) = S /\ At(ending_city, p) = V

\* C16: has_an_infected_neighbor on a position that is not "S" fails its
\* assertion, and calc_avg with num_trials <= 0 fails its assertion without
\* having called run_simulation.
C16_FailFast ==
  /\ InRun =>
       \A p \in Positions(ending_city) :
         At(ending_city, p) # S =>
           has_an_infected_neighbor(ending_city, p) = "AssertionError"
  /\ (entry = "calc_avg_days_to_zero_infections" /\ num_trials <= 0) =>
       /\ pc \in {"avg_start", "AssertionError"}
       /\ calls = <<>>

\* calc_avg has failed on num_trials = 0
C16_Witness ==
  /\ entry = "calc_avg_days_to_zero_infections"
  /\ num_trials = 0
  /\ pc = "AssertionError"
  /\ calls = <<>>

\* C18: with days_contagious >= 1 the snapshot a run returns holds no
\* infected person.
C18_Extinction ==
  (pc = "run_ret" /\ days_contagious >= 1) => InfectionFree(ending_city)

\* a run that needed N + days_contagious - 1 days has returned with nobody
\* infected
C18_Witness ==
  /\ pc = "run_ret"
  /\ days_contagious >= 2
  /\ Len(city) >= 3
  /\ duration = Len(city) + days_contagious - 1
  /\ InfectionFree(ending_city)

\* C12: the vaccination pass changes only positions that are "S" in the
\* initial snapshot, to "V"; it is followed by the loop with no day simulated
\* yet; within the run no further draw is made and the Vaccinated positions
\* of every snapshot are those of the snapshot the pass returned.
C12_VaccinateOnce ==
  /\ [][VaccStep =>
          /\ duration' = 0 /\ idx' = 0
          /\ \A p \in Positions(city) :
               At(ending_city', p) # At(city, p) =>
                 At(city, p) = S /\ At(ending_city', p) = V]_vars
  /\ [][InRun => rng' = rng /\ pc' # "run_vacc"]_vars
  /\ [](InRun =>
          /\ Len(ending_city) = Len(day0)
          /\ \A p \in Positions(day0) :
               At(ending_city, p) = V <=> At(day0, p) = V)

\* days have been simulated after a pass that vaccinated one susceptible
\* person and left another, who has been infected since
C12_Witness ==
  /\ pc = "run_loop"
  /\ duration >= 2
  /\ \E p, q \in Positions(city) :
       /\ At(city, p) = S /\ At(ending_city, p) = V
       /\ At(city, q) = S /\ At(day0, q) = S /\ At(ending_city, q) # S

\* C14: the run of ["I0"] with days_contagious = 2 returns ["R"] and 2 days
\* and never calls has_an_infected_neighbor.
C14_SinglePerson ==
  (city = <<Inf(0)>> /\ days_contagious = 2 /\ InRun) =>
    /\ neighbor_calls = 0
    /\ duration = 0 => ending_city = <<Inf(0)>>
    /\ duration = 1 => ending_city = <<Inf(1)>>
    /\ duration = 2 => ending_city = <<R>>
    /\ duration <= 2
    /\ pc = "run_ret" => duration = 2

C14_Witness ==
  /\ city = <<Inf(0)>>
  /\ days_contagious = 2
  /\ pc = "run_ret"
  /\ ending_city = <<R>>
  /\ duration = 2
  /\ neighbor_calls = 0

RECURSIVE DayIter(_, _, _)
\* simulate_one_day applied k times to c, and whether each of the k
\* snapshots it was applied to held an infected person
DayIter(c, k, dc) ==
  IF k = 0 THEN [final |-> c, infected |-> TRUE]
  ELSE IF InfectionFree(c)
    THEN [final |-> DayIter(simulate_one_day(c, dc), k - 1, dc).final,
          infected |-> FALSE]
  ELSE DayIter(simulate_one_day(c, dc), k - 1, dc)

\* C19: the number of days a run returns is the number of simulate_one_day
\* applications it made, the snapshot it returns is simulate_one_day applied
\* that many times to the snapshot the vaccination pass returned, and each of
\* the earlier snapshots held an infected person; so a returned
\* infection-free snapshot comes with the least such number of days, and a
\* returned snapshot with infected people comes with the loop's full range
\* of days.
C19_DaysCounted ==
  /\ InRun => duration = idx
  /\ pc = "run_ret" =>
       LET applied == DayIter(day0, duration, days_contagious)
       IN  /\ ending_city = applied.final
           /\ applied.infected
           /\ ~InfectionFree(ending_city) =>
                duration >= Len(city) + days_contagious

\* a run of three or more days has returned an infection-free snapshot
C19_Witness ==
  /\ pc = "run_ret"
  /\ duration >= 3
  /\ InfectionFree(ending_city)
  /\ ending_city = DayIter(day0, duration, days_contagious).final
  /\ day0 # city

Immune(tok) == tok \in {R, V}

\* q is infected in c and nobody strictly between p and q is immune
Reaches(c, q, p) ==
  /\ IsInfected(At(c, q))
  /\ \A r \in Positions(c) :
       ((p < r /\ r < q) \/ (q < r /\ r < p)) => ~Immune(At(c, r))

Distance(p, q) == IF p < q THEN q - p ELSE p - q

\* C20: a position that is "S" after the vaccination pass is still "S" after
\* k days if every infected position that reaches it through non-immune
\* positions is more than k away; if none reaches it, it stays "S".
C20_ImmuneBlock ==
  InRun =>
    \A p \in Positions(day0) :
      (/\ At(day0, p) = S
       /\ \A q \in Positions(day0) :
            Reaches(day0, q, p) => Distance(p, q) > duration)
      => At(ending_city, p) = S

\* a run with infection has returned and left susceptible a person whom
\* only an immune person separated from an infected one
C20_Witness ==
  /\ pc = "run_ret"
  /\ duration >= 1
  /\ \E p, q \in Positions(day0) :
       /\ At(day0, p) = S
       /\ Distance(p, q) = 2
       /\ IsInfected(At(day0, q))
       /\ ~Reaches(day0, q, p)
       /\ \A r \in Positions(day0) : ~Reaches(day0, r, p)
       /\ At(ending_city, p) = S

\* "S", "R", "V" or "I" followed by a non-negative integer
WellFormed(tok) ==
  \/ tok \in {S, R, V}
  \/ /\ Len(tok) >= 2
     /\ tok[1] = "I"
     /\ \A k \in 2..Len(tok) : \E n \in 0..9 : Digits[n + 1] = tok[k]

\* C17: every person of a city that passed the check and is handed to the
\* simulation is well formed (a city with any other token is stopped at the
\* check).
C17_Validation ==
  pc \in {"cmd_dispatch", "run_seed", "avg_start"} =>
    \A k \in 1..Len(city) : WellFormed(city[k])

====
